---- MODULE Spec2Model ----
(***************************************************************************)
(* Trading-Algorithm: the backtesting simulator (Backtester), the          *)
(* gene-driven strategy (EvolvedStrategy), the indicator engine            *)
(* (Indicators) and the genetic optimizer (GeneticAlgorithm).              *)
(*                                                                         *)
(* Conventions.  C++ indices are 0-based; a vector v is the sequence v     *)
(* with v[k] of the code written At(v, k) = v[k+1].  Prices and equity   *)
(* of the simulator are integer-valued doubles.  In the strategy and the    *)
(* optimizer a double x (price, percentage, indicator value, threshold) is *)
(* held as the integer 1000x, an equity as 100x (cents), a return or a     *)
(* performance ratio as 100000x.                                           *)
(***************************************************************************)
EXTENDS Integers, Sequences, FiniteSets, TLC

(***************************************************************************)
(* Bounds of the model and input domains.                                  *)
(***************************************************************************)
MaxBars == 4

Prices == {1, 2}

\* "2020-01-01 00:00:00" and "2021-06-01 00:00:00" as character codes
T2020 == <<50,48,50,48,45,48,49,45,48,49,32,48,48,58,48,48,58,48,48>>

T2021 == <<50,48,50,49,45,48,54,45,48,49,32,48,48,58,48,48,58,48,48>>

Timestamps == {T2020, T2021}

\* OHLCV (include/DataLoader.hpp): open and volume are never read by the
\* simulator and are left out.
Bars == {b \in [timestamp : Timestamps, high : Prices, low : Prices, close : Prices] :
            b.low <= b.close /\ b.close <= b.high}

RECURSIVE SeqsUpTo(_, _)
SeqsUpTo(S, n) ==
    IF n = 0 THEN {<<>>}
    ELSE LET shorter == SeqsUpTo(S, n - 1)
         IN  shorter \cup {Append(s, x) : s \in {t \in shorter : Len(t) = n - 1}, x \in S}

\* timestamps are lexically sortable and non-decreasing along a series
RECURSIVE LexLeq(_, _, _)
LexLeq(a, b, k) ==
    IF k > Len(a) THEN TRUE
    ELSE IF k > Len(b) THEN FALSE
    ELSE IF a[k] # b[k] THEN a[k] < b[k]
    ELSE LexLeq(a, b, k + 1)

Chronological(s) ==
    \A k \in 1..(Len(s) - 1) : LexLeq(s[k].timestamp, s[k + 1].timestamp, 1)

Series == {s \in SeqsUpTo(Bars, MaxBars) : Chronological(s)}

At(v, k) == v[k + 1]

\* Backtester(data, strategy, initial_equity = 1000.0)
InitialEquity == 1000

\* TradeSignal (include/Strategy.hpp), index and reason left out
NoneSignal == [type |-> "NONE", stop_loss |-> 0, take_profit |-> 0]

SellSignal == [type |-> "SELL", stop_loss |-> 0, take_profit |-> 0]

BuySignal(s, t) == [type |-> "BUY", stop_loss |-> s, take_profit |-> t]

\* what a bound Strategy may answer: any signal type, any levels
SignalStops == {0, 1}

SignalTargets == {2, 3}

Signals == {NoneSignal, SellSignal} \cup
           {BuySignal(s, t) : s \in SignalStops, t \in SignalTargets}

VARIABLES
    \* ---- Backtester ----
    data_, strategy_, avx2, initial_equity_, equity_, yearly_pnl_, equity_curve_,
    total_trades_, winning_trades_,
    \* locals of Backtester::run
    pc, i, in_position, entry_price, stop_loss, take_profit, entry_date,
    \* history of the run (not program state): positions opened, trades closed
    opened, trades, entry_index,
    \* ---- EvolvedStrategy bound to a series, GeneticAlgorithm::evaluateFitness ----
    gene_, series, precomputed_, primary_values_, secondary_values_,
    \* the last call of generateSignal and the last result of evaluateFitness
    last_index, last_signal, last_reads, evaluated, fit_result, fit_log,
    \* ---- GeneticAlgorithm ----
    ga_data_, population_, best_strategy_, best_fitness_,
    \* position in evolve(): the step to run next and the generation counter
    ga_pc, generation,
    \* history: how many times evolve() has replaced best_strategy_
    recorded,
    \* ---- a caller of Backtester::run ----
    \* calls of run() that have returned, and what the first of them left behind
    runs, first_run,
    \* ---- the build of Indicators::SMA ----
    \* __SSE2__ is defined; what the vector loop's loads off &data[k].close average to
    sse2, stray_mean,
    \* ---- GoldenFoundationStrategy, GPUGoldenFoundationStrategy, batch indicators ----
    \* the series, the two strategy objects, the way the GPU strategy's
    \* precomputeSignals went, the last result of calculateBatchIndicators
    golden_data, golden, gpu_golden, gpu_path, batch

btVars == <<data_, strategy_, avx2, initial_equity_, equity_, yearly_pnl_, equity_curve_,
            total_trades_, winning_trades_, pc, i, in_position, entry_price, stop_loss,
            take_profit, entry_date, opened, trades, entry_index>>

esVars == <<gene_, series, precomputed_, primary_values_, secondary_values_,
            last_index, last_signal, last_reads, evaluated, fit_result, fit_log>>

gaVars == <<ga_data_, population_, best_strategy_, best_fitness_, ga_pc, generation,
            recorded>>

callerVars == <<runs, first_run>>

goldenVars == <<sse2, stray_mean, golden_data, golden, gpu_golden, gpu_path, batch>>

vars == <<btVars, esVars, gaVars, callerVars, goldenVars>>

otherThanBacktester == <<esVars, gaVars, callerVars, goldenVars>>

otherThanStrategy == <<btVars, gaVars, callerVars, goldenVars>>

otherThanOptimizer == <<btVars, esVars, callerVars, goldenVars>>

otherThanGolden == <<btVars, esVars, gaVars, callerVars>>

(***************************************************************************)
(* StrategyGene and FitnessResult (include/GeneticStrategy.hpp)            *)
(***************************************************************************)
Milli == 1000

BasisPoints == 10000

Cents == 100

\* a / b of two doubles, rounded to the nearest unit of the fixed-point scale
Div(a, b) == IF b = 0 THEN 0 ELSE (2 * a + b) \div (2 * b)

\* StrategyGene() = default
DefaultGene ==
    [primary_indicator |-> "SMA", secondary_indicator |-> "RSI",
     primary_period |-> 20, secondary_period |-> 14,
     primary_threshold |-> 0, secondary_threshold |-> 30 * Milli,
     entry_condition |-> "CROSS_ABOVE", exit_condition |-> "FIXED_RR",
     risk_reward_ratio |-> 2 * Milli, stop_loss_pct |-> 20, take_profit_pct |-> 40,
     max_hold_time |-> 48, position_size_pct |-> 100, fitness |-> 0]

\* FitnessResult with its member initializers; finite is FALSE once a division
\* by zero has happened in the evaluation (the doubles are then inf or NaN)
DefaultFitnessResult ==
    [total_return |-> 0, sharpe_ratio |-> 0, max_drawdown |-> 0, win_rate |-> 0,
     total_trades |-> 0, profit_factor |-> 0, calmar_ratio |-> 0,
     fitness_score |-> 0, finite |-> TRUE]

\* no EvolvedStrategy is bound and nothing has been evaluated
StrategyIdle ==
    /\ gene_ = DefaultGene
    /\ series = <<>>
    /\ precomputed_ = FALSE
    /\ primary_values_ = <<>>
    /\ secondary_values_ = <<>>
    /\ last_index = -1
    /\ last_signal = NoneSignal
    /\ last_reads = {}
    /\ evaluated = FALSE
    /\ fit_result = DefaultFitnessResult
    /\ fit_log = <<>>

\* no GeneticAlgorithm has been constructed
OptimizerIdle ==
    /\ ga_data_ = <<>>
    /\ population_ = <<>>
    /\ best_strategy_ = DefaultGene
    /\ best_fitness_ = DefaultFitnessResult
    /\ ga_pc = "idle"
    /\ generation = 0
    /\ recorded = 0

\* nobody has called Backtester::run a second time
CallerIdle ==
    /\ runs = 0
    /\ first_run = [equity |-> 0, yearly |-> [k \in {} |-> 0], curve |-> 0, trades |-> 0]

\* GoldenFoundationStrategy(risk_reward) with the member initialisers of
\* include/Strategy.hpp lines 50-58
NewGolden(risk_reward) ==
    [risk_reward_ |-> risk_reward, sma_values_ |-> <<>>, rsi_values_ |-> <<>>,
     signals_ |-> <<>>, stops_ |-> <<>>, targets_ |-> <<>>, precomputed_ |-> FALSE,
     sma_period_ |-> 20, rsi_period_ |-> 7, rsi_oversold_ |-> 30 * Milli]

\* GPUGoldenFoundationStrategy(risk_reward), src/GPUStrategy.cpp lines 14-16
NewGPUGolden(risk_reward) ==
    [risk_reward_ |-> risk_reward, sma_values_ |-> <<>>, rsi_values_ |-> <<>>,
     signals_ |-> <<>>, stops_ |-> <<>>, targets_ |-> <<>>, precomputed_ |-> FALSE]

\* calculateBatchIndicators has not been called
NoBatch ==
    [sma_period |-> 0, rsi_period |-> 0, sma_values |-> <<>>, rsi_values |-> <<>>]

\* no canonical strategy is in use; no series of the other specifications
\* reaches the vector loop of Indicators::SMA, whose build is left scalar
GoldenIdle ==
    /\ sse2 = FALSE
    /\ stray_mean = 0
    /\ golden_data = <<>>
    /\ golden = NewGolden(3 * Milli)
    /\ gpu_golden = NewGPUGolden(3 * Milli)
    /\ gpu_path = "none"
    /\ batch = NoBatch

\* no Backtester is running
BacktesterIdle ==
    /\ data_ = <<>>
    /\ strategy_ = [k \in {} |-> NoneSignal]
    /\ avx2 = FALSE
    /\ initial_equity_ = InitialEquity
    /\ equity_ = InitialEquity
    /\ yearly_pnl_ = [k \in {} |-> 0]
    /\ equity_curve_ = <<>>
    /\ total_trades_ = 0
    /\ winning_trades_ = 0
    /\ pc = "idle"
    /\ i = 0
    /\ in_position = FALSE
    /\ entry_price = 0
    /\ stop_loss = 0
    /\ take_profit = 0
    /\ entry_date = <<>>
    /\ opened = 0
    /\ trades = <<>>
    /\ entry_index = 0

(***************************************************************************)
(* Backtester::addToYearlyPnL                                              *)
(***************************************************************************)
IsDigit(c) == 48 <= c /\ c <= 57

\* std::istringstream iss(entry_date.substr(0, 4)); iss >> year;
\* the leading run of decimal digits, 0 when there is none
RECURSIVE ParseDigits(_, _, _)
ParseDigits(s, k, acc) ==
    IF k > Len(s) \/ ~IsDigit(s[k]) THEN acc
    ELSE ParseDigits(s, k + 1, acc * 10 + (s[k] - 48))

YearStd(date) == ParseDigits(SubSeq(date, 1, 4), 1, 0)

\* 32-bit words as <<high 16 bits, low 16 bits>>
W16 == 65536

WMulC(x, c) ==
    LET lo == x[2] * c
        hi == x[1] * c + (lo \div W16)
    IN  <<hi % W16, lo % W16>>

WAdd(x, y) ==
    LET lo == x[2] + y[2]
        hi == x[1] + y[1] + (lo \div W16)
    IN  <<hi % W16, lo % W16>>

\* _mm_sub_epi8(chars, zeros): byte-wise c - '0' modulo 256
SubByte(c) == (c - 48 + 256) % 256

\* _mm_storeu_si128((__m128i*)year_digits, digits): year_digits[k] is bytes
\* 4k..4k+3 of the 16 loaded bytes, little-endian
YearDigit(date, k) ==
    <<SubByte(date[4*k + 3]) + 256 * SubByte(date[4*k + 4]),
      SubByte(date[4*k + 1]) + 256 * SubByte(date[4*k + 2])>>

\* year_digits[0]*1000 + year_digits[1]*100 + year_digits[2]*10 + year_digits[3]
\* in int arithmetic (two's complement wrap-around)
YearAvx2Word(date) ==
    WAdd(WAdd(WAdd(WMulC(YearDigit(date, 0), 1000),
                   WMulC(YearDigit(date, 1), 100)),
              WMulC(YearDigit(date, 2), 10)),
         YearDigit(date, 3))

\* the int a word stands for when it is positive, 0 or -1 otherwise
YearAvx2(date) ==
    LET w == YearAvx2Word(date)
    IN  IF w[1] >= 32768 THEN -1 ELSE w[1] * W16 + w[2]

ExtractYear(date, simd) ==
    IF simd THEN YearAvx2(date) ELSE YearStd(date)

\* yearly_pnl_[year] += pnl on a std::map<int,double>
MapAdd(m, key, pnl) ==
    IF key \in DOMAIN m THEN [m EXCEPT ![key] = @ + pnl]
    ELSE m @@ (key :> pnl)

addToYearlyPnL(m, date, pnl, simd) ==
    IF Len(date) >= 4
    THEN LET year == ExtractYear(date, simd)
         IN  IF year > 0 THEN MapAdd(m, year, pnl) ELSE m
    ELSE m

EmptyMap == [k \in {} |-> 0]

(***************************************************************************)
(* Backtester::Backtester and Backtester::run                              *)
(***************************************************************************)
BacktesterInit ==
    /\ data_ \in Series
    /\ strategy_ = [k \in {} |-> NoneSignal]
    /\ avx2 \in BOOLEAN
    /\ initial_equity_ = InitialEquity
    /\ equity_ = InitialEquity
    /\ yearly_pnl_ = EmptyMap
    /\ equity_curve_ = <<>>
    /\ total_trades_ = 0
    /\ winning_trades_ = 0
    /\ pc = "start"
    /\ i = 0
    /\ in_position = FALSE
    /\ entry_price = 0
    /\ stop_loss = 0
    /\ take_profit = 0
    /\ entry_date = <<>>
    /\ opened = 0
    /\ trades = <<>>
    /\ entry_index = 0
    /\ StrategyIdle
    /\ OptimizerIdle
    /\ CallerIdle
    /\ GoldenIdle

\* a run() that would start from the constructed state
RunBeginFresh ==
    /\ pc = "start"
    /\ pc' = "loop"
    /\ i' = 1
    /\ in_position' = FALSE
    /\ entry_price' = 0
    /\ stop_loss' = 0
    /\ take_profit' = 0
    /\ entry_date' = <<>>
    /\ equity_' = initial_equity_
    /\ yearly_pnl_' = [k \in {} |-> 0]
    /\ equity_curve_' = <<initial_equity_>>
    /\ UNCHANGED <<data_, strategy_, avx2, initial_equity_,
                   total_trades_, winning_trades_, opened, trades, entry_index>>
    /\ UNCHANGED otherThanBacktester

\* a run() whose loop would start at the first bar of the series
RunBeginAtFirstBar ==
    /\ pc = "start"
    /\ pc' = "loop"
    /\ i' = 0
    /\ in_position' = FALSE
    /\ entry_price' = 0
    /\ stop_loss' = 0
    /\ take_profit' = 0
    /\ entry_date' = <<>>
    /\ equity_curve_' = Append(equity_curve_, initial_equity_)
    /\ UNCHANGED <<data_, strategy_, avx2, initial_equity_, equity_, yearly_pnl_,
                   total_trades_, winning_trades_, opened, trades, entry_index>>
    /\ UNCHANGED otherThanBacktester

\* lines 15-23: locals, equity_curve_.push_back(initial_equity_)
RunBegin ==
    /\ pc = "start"
    /\ pc' = "loop"
    /\ i' = 1
    /\ in_position' = FALSE
    /\ entry_price' = 0
    /\ stop_loss' = 0
    /\ take_profit' = 0
    /\ entry_date' = <<>>
    /\ equity_curve_' = Append(equity_curve_, initial_equity_)
    /\ UNCHANGED <<data_, strategy_, avx2, initial_equity_, equity_, yearly_pnl_,
                   total_trades_, winning_trades_, opened, trades, entry_index>>
    /\ UNCHANGED otherThanBacktester

FlatAlways == TRUE

\* line 38: if (!in_position)
Flat == ~in_position

\* the signal the bound strategy returns at index k: fixed once asked
SignalAt(k, sig) ==
    IF k \in DOMAIN strategy_ THEN sig = strategy_[k] ELSE sig \in Signals

\* lines 38-47 and 65: FLAT, the strategy has answered sig at bar i
BarFlatOn(sig) ==
    /\ pc = "loop"
    /\ i < Len(data_)
    /\ Flat
    /\ IF sig.type = "BUY"
       THEN /\ in_position' = TRUE
            /\ entry_price' = At(data_, i).close
            /\ stop_loss' = sig.stop_loss
            /\ take_profit' = sig.take_profit
            /\ entry_date' = At(data_, i).timestamp
            /\ opened' = opened + 1
            /\ entry_index' = i
       ELSE UNCHANGED <<in_position, entry_price, stop_loss, take_profit,
                        entry_date, opened, entry_index>>
    /\ equity_curve_' = Append(equity_curve_, equity_)
    /\ i' = i + 1
    /\ UNCHANGED <<data_, avx2, initial_equity_, equity_, yearly_pnl_, total_trades_,
                   winning_trades_, pc, trades>>

\* line 40: strategy_->generateSignal(data_, i) of a strategy known by its answers only
BarFlat ==
    /\ \E sig \in Signals :
          /\ SignalAt(i, sig)
          /\ strategy_' = IF i \in DOMAIN strategy_ THEN strategy_
                          ELSE strategy_ @@ (i :> sig)
          /\ BarFlatOn(sig)
    /\ UNCHANGED otherThanBacktester

\* a closed trade, for the history of the run
ClosedTrade(how, pnl, exit_index) ==
    [how |-> how, pnl |-> pnl, entry_index |-> entry_index, exit_index |-> exit_index,
     entry_date |-> entry_date, entry_price |-> entry_price, stop_loss |-> stop_loss,
     take_profit |-> take_profit]

\* lines 53 and 58: if (current_low <= stop_loss) ... else if (current_high >= take_profit)
ExitKindTargetFirst(current_low, current_high) ==
    IF current_high >= take_profit THEN "target"
    ELSE IF current_low <= stop_loss THEN "stop"
    ELSE "none"

ExitKind(current_low, current_high) ==
    IF current_low <= stop_loss THEN "stop"
    ELSE IF current_high >= take_profit THEN "target"
    ELSE "none"

\* lines 54-57, 59-62, 70-72: equity_ += pnl; addToYearlyPnL(entry_date, pnl)
Realize(how, pnl, exit_index) ==
    /\ equity_' = equity_ + pnl
    /\ yearly_pnl_' = addToYearlyPnL(yearly_pnl_, entry_date, pnl, avx2)
    /\ trades' = Append(trades, ClosedTrade(how, pnl, exit_index))

\* lines 47-65: IN_POSITION, stop checked first, then target
BarInPosition ==
    /\ pc = "loop"
    /\ i < Len(data_)
    /\ ~Flat
    /\ LET kind == ExitKind(At(data_, i).low, At(data_, i).high)
       IN  CASE kind = "stop" ->
                  /\ Realize("stop", stop_loss - entry_price, i)
                  /\ in_position' = FALSE
             [] kind = "target" ->
                  /\ Realize("target", take_profit - entry_price, i)
                  /\ in_position' = FALSE
             [] OTHER ->
                  UNCHANGED <<equity_, yearly_pnl_, in_position, trades>>
    /\ equity_curve_' = Append(equity_curve_, equity_')
    /\ i' = i + 1
    /\ UNCHANGED <<data_, strategy_, avx2, initial_equity_, total_trades_, winning_trades_,
                   pc, entry_price, stop_loss, take_profit, entry_date, opened,
                   entry_index>>
    /\ UNCHANGED otherThanBacktester

\* lines 68-78: close any remaining position at close_prices.back(), return
RunEnd ==
    /\ pc = "loop"
    /\ ~(i < Len(data_))
    /\ pc' = "done"
    /\ IF in_position
       THEN Realize("forced", data_[Len(data_)].close - entry_price, Len(data_) - 1)
       ELSE UNCHANGED <<equity_, yearly_pnl_, trades>>
    /\ UNCHANGED <<data_, strategy_, avx2, initial_equity_, equity_curve_, total_trades_,
                   winning_trades_, i, in_position, entry_price, stop_loss, take_profit,
                   entry_date, opened, entry_index>>
    /\ UNCHANGED otherThanBacktester

\* getTotalTrades(), getWinRate() as the pair winning/total (0/1 when no trade)
getTotalTrades == total_trades_

getWinRate == IF total_trades_ > 0 THEN <<winning_trades_, total_trades_>> ELSE <<0, 1>>

getFinalEquity == equity_

BacktesterNext == RunBegin \/ BarFlat \/ BarInPosition \/ RunEnd

SpecBT == BacktesterInit /\ [][BacktesterNext]_vars

(***************************************************************************)
(* Claims about Backtester::run                                            *)
(***************************************************************************)
\* the calendar year written in the first four characters of a timestamp
CalendarYear(date) ==
    (date[1] - 48) * 1000 + (date[2] - 48) * 100 + (date[3] - 48) * 10 + (date[4] - 48)

RECURSIVE TotalPnl(_)
TotalPnl(ts) == IF ts = <<>> THEN 0 ELSE ts[1].pnl + TotalPnl(Tail(ts))

RECURSIVE PnlOfYear(_, _)
PnlOfYear(ts, y) ==
    IF ts = <<>> THEN 0
    ELSE (IF CalendarYear(ts[1].entry_date) = y THEN ts[1].pnl ELSE 0)
         + PnlOfYear(Tail(ts), y)

RECURSIVE MapSum(_, _)
MapSum(m, keys) ==
    IF keys = {} THEN 0
    ELSE LET k == CHOOSE x \in keys : TRUE
         IN  m[k] + MapSum(m, keys \ {k})

EntryYears(ts) == {CalendarYear(ts[k].entry_date) : k \in 1..Len(ts)}

Wins(ts) == Cardinality({k \in 1..Len(ts) : ts[k].pnl > 0})

OpenPositions == opened - Len(trades)

\* C1: at most one position is open at any bar; the strategy is asked for a
\* signal only while FLAT, and a position is opened only when none is open.
C1_OnePositionAtATime ==
    [][ /\ (strategy_' # strategy_ => ~in_position)
        /\ (opened' # opened => OpenPositions = 0)
        /\ opened' - Len(trades') \in {0, 1} ]_vars

\* C1 witness: a first position was closed and a second one is open
C1_Witness ==
    pc = "loop" /\ in_position /\ opened = 2 /\ Len(trades) = 1

\* C2: when run() has returned every opened position is closed, and a forced
\* close realizes (final close - entry close), which is in the final equity
\* and in the yearly bucket of the entry bar's calendar year.
C2_EveryPositionClosed ==
    pc = "done" =>
        /\ opened = Len(trades)
        /\ equity_ = initial_equity_ + TotalPnl(trades)
        /\ \A k \in 1..Len(trades) :
              trades[k].how = "forced" =>
                  LET t == trades[k]
                      y == CalendarYear(t.entry_date)
                  IN  /\ t.pnl = data_[Len(data_)].close - At(data_, t.entry_index).close
                      /\ y \in DOMAIN yearly_pnl_
                      /\ yearly_pnl_[y] = PnlOfYear(trades, y)

\* C3: a bar that reaches both the stop and the target while IN_POSITION
\* closes the position at the stop: the PnL realized is stop - entry.
C3_StopBeforeTarget ==
    [][ ( /\ pc = "loop" /\ i < Len(data_) /\ in_position
          /\ At(data_, i).low <= stop_loss
          /\ At(data_, i).high >= take_profit )
        => ( /\ ~in_position'
             /\ equity_' = equity_ + (stop_loss - entry_price)
             /\ Len(trades') = Len(trades) + 1
             /\ trades'[Len(trades')].pnl = stop_loss - entry_price ) ]_vars

\* C3 witness: a trade closed at its stop on a bar that also reached its
\* target, the two exits differing in PnL
C3_Witness ==
    \E k \in 1..Len(trades) :
        /\ trades[k].how = "stop"
        /\ At(data_, trades[k].exit_index).low <= trades[k].stop_loss
        /\ At(data_, trades[k].exit_index).high >= trades[k].take_profit
        /\ trades[k].stop_loss # trades[k].take_profit
        /\ equity_ = initial_equity_ + TotalPnl(trades)

\* C4: every closed trade adds its PnL to exactly one yearly bucket, that of
\* the calendar year of its entry bar, so the buckets are the per-entry-year
\* sums and after run() they add up to final equity minus initial equity.
C4_YearlyBuckets ==
    /\ DOMAIN yearly_pnl_ = EntryYears(trades)
    /\ \A y \in DOMAIN yearly_pnl_ : yearly_pnl_[y] = PnlOfYear(trades, y)
    /\ (pc = "done" =>
          MapSum(yearly_pnl_, DOMAIN yearly_pnl_) = getFinalEquity - initial_equity_)

\* C5: after run() getTotalTrades() is the number of closed trades and
\* getWinRate() the fraction of them with positive PnL (0 when none closed).
C5_TradeStatistics ==
    pc = "done" =>
        /\ getTotalTrades = Len(trades)
        /\ getWinRate[1] * (IF Len(trades) > 0 THEN Len(trades) ELSE 1)
             = Wins(trades) * getWinRate[2]

\* C6: after run() on a fresh Backtester the equity curve has one value per
\* bar of the series, for every series length including 0 and 1; the curve
\* only grows by appending.
C6_CurveLength ==
    /\ [](pc = "done" => Len(equity_curve_) = Len(data_))
    /\ [][ /\ Len(equity_curve_') >= Len(equity_curve_)
           /\ SubSeq(equity_curve_', 1, Len(equity_curve_)) = equity_curve_ ]_vars

(***************************************************************************)
(* Indicators::SMA and Indicators::RSI (src/MovingAverage.cpp)             *)
(***************************************************************************)
Max(a, b) == IF a > b THEN a ELSE b

RECURSIVE SumClose(_, _, _)
SumClose(data, from, to) ==
    IF from > to THEN 0 ELSE At(data, from).close + SumClose(data, from + 1, to)

\* lines 11-83. For period >= 8 a build with __SSE2__ (or __AVX2__) sums
\* prices[0..period-1] with prices = &data[start_idx].close: consecutive
\* doubles in memory, not the closes of consecutive bars (an OHLCV is a
\* string and five doubles). The loads run over volumes, timestamps and
\* other bars' prices; what they average to is stray_mean. A build without
\* either macro, and every period below 8, takes the scalar loop.
SMA(data, end_index, period) ==
    IF end_index + 1 < period THEN 0
    ELSE IF period >= 8 /\ sse2 THEN stray_mean
    ELSE Div(SumClose(data, end_index + 1 - period, end_index), period)

\* total_gain / total_loss over the changes of bars end_index-period+1..end_index
RECURSIVE TotalGain(_, _, _)
TotalGain(data, from, to) ==
    IF from > to THEN 0
    ELSE LET change == IF from = 0 THEN 0
                       ELSE At(data, from).close - At(data, from - 1).close
         IN  (IF change > 0 THEN change ELSE 0) + TotalGain(data, from + 1, to)

RECURSIVE TotalLoss(_, _, _)
TotalLoss(data, from, to) ==
    IF from > to THEN 0
    ELSE LET change == IF from = 0 THEN 0
                       ELSE At(data, from).close - At(data, from - 1).close
         IN  (IF change < 0 THEN -change ELSE 0) + TotalLoss(data, from + 1, to)

\* the oscillator without the neutral value for a window that has not moved
RSIWithoutNeutral(data, end_index, period) ==
    IF end_index < period THEN 50 * Milli
    ELSE LET total_gain == TotalGain(data, end_index - period + 1, end_index)
             total_loss == TotalLoss(data, end_index - period + 1, end_index)
         IN  IF total_loss = 0 THEN 100 * Milli
             ELSE 100 * Milli - 100 * Div(Milli * total_loss, total_gain + total_loss)

\* 100 - 100 / (1 + rs) with rs = avg_gain / avg_loss is 100 - 100 * loss / (gain + loss)
RSI(data, end_index, period) ==
    IF end_index < period THEN 50 * Milli
    ELSE LET total_gain == TotalGain(data, end_index - period + 1, end_index)
             total_loss == TotalLoss(data, end_index - period + 1, end_index)
         IN  IF total_gain + total_loss = 0 THEN 50 * Milli
             ELSE IF total_loss = 0 THEN 100 * Milli
             ELSE 100 * Milli - 100 * Div(Milli * total_loss, total_gain + total_loss)

(***************************************************************************)
(* EvolvedStrategy (src/GeneticStrategy.cpp)                               *)
(***************************************************************************)
\* a switch that would give every other kind the moving average
calculateIndicatorEveryKind(data, index, type, period) ==
    CASE type = "RSI" -> RSI(data, index, period)
      [] OTHER -> SMA(data, index, period)

\* lines 462-471
calculateIndicator(data, index, type, period) ==
    CASE type = "SMA" -> SMA(data, index, period)
      [] type = "RSI" -> RSI(data, index, period)
      [] OTHER -> 0

precomputeIndicators(gene, data) ==
    [primary |-> [k \in 1..Len(data) |->
                     calculateIndicator(data, k - 1, gene.primary_indicator,
                                        gene.primary_period)],
     secondary |-> [k \in 1..Len(data) |->
                     calculateIndicator(data, k - 1, gene.secondary_indicator,
                                        gene.secondary_period)]]

\* v[k] of a std::vector<double>: outside the vector the read is undefined
\* behaviour and yields whatever the build finds there
ReadAt(v, k, garbage) == IF 0 <= k /\ k < Len(v) THEN v[k + 1] ELSE garbage

checkEntryCondition(gene, values, index, garbage) ==
    LET primary_val == ReadAt(values.primary, index, garbage)
        secondary_val == ReadAt(values.secondary, index, garbage)
    IN  CASE gene.entry_condition = "CROSS_ABOVE" ->
                /\ primary_val > gene.primary_threshold
                /\ ReadAt(values.primary, index - 1, garbage) <= gene.primary_threshold
          [] gene.entry_condition = "CROSS_BELOW" ->
                /\ primary_val < gene.primary_threshold
                /\ ReadAt(values.primary, index - 1, garbage) >= gene.primary_threshold
          [] gene.entry_condition = "ABOVE" ->
                /\ primary_val > gene.primary_threshold
                /\ secondary_val > gene.secondary_threshold
          [] gene.entry_condition = "BELOW" ->
                /\ primary_val < gene.primary_threshold
                /\ secondary_val < gene.secondary_threshold
          [] OTHER -> FALSE

\* the indices of primary_values_ / secondary_values_ checkEntryCondition reads
checkEntryConditionReads(gene, index) ==
    {index} \cup (IF gene.entry_condition \in {"CROSS_ABOVE", "CROSS_BELOW"}
                  THEN {index - 1} ELSE {})

calculateStopLoss(gene, data, index) ==
    Div(At(data, index).close * (Milli - gene.stop_loss_pct), Milli)

calculateTakeProfit(gene, data, index) ==
    Div(At(data, index).close * (Milli + gene.take_profit_pct), Milli)

NoWarmUp(gene, current_index) == FALSE

\* line 430: current_index < std::max(primary_period, secondary_period)
WarmUp(gene, current_index) ==
    current_index < Max(gene.primary_period, gene.secondary_period)

\* lines 430-447, values being the arrays precomputeIndicators has filled
generateSignal(gene, data, values, current_index, garbage) ==
    IF WarmUp(gene, current_index) THEN NoneSignal
    ELSE IF checkEntryCondition(gene, values, current_index, garbage)
         THEN BuySignal(calculateStopLoss(gene, data, current_index),
                        calculateTakeProfit(gene, data, current_index))
         ELSE NoneSignal

generateSignalReads(gene, current_index) ==
    IF WarmUp(gene, current_index) THEN {}
    ELSE checkEntryConditionReads(gene, current_index)

(***************************************************************************)
(* GeneticAlgorithm::evaluateFitness and its helpers                       *)
(***************************************************************************)
\* double current_equity = 10000.0
StartEquity == 10000 * Cents

RECURSIVE SumSeq(_)
SumSeq(q) == IF q = <<>> THEN 0 ELSE q[1] + SumSeq(Tail(q))

RECURSIVE SumSquares(_)
SumSquares(q) == IF q = <<>> THEN 0 ELSE q[1] * q[1] + SumSquares(Tail(q))

\* std::sqrt on the fixed-point scale: the integer square root
RECURSIVE ISqrtIn(_, _, _)
ISqrtIn(x, lo, hi) ==
    IF lo = hi THEN lo
    ELSE LET mid == (lo + hi + 1) \div 2
         IN  IF mid * mid <= x THEN ISqrtIn(x, mid, hi) ELSE ISqrtIn(x, lo, mid - 1)

ISqrt(x) == ISqrtIn(x, 0, 46340)

\* mean / std_dev with mean = S / n and std_dev = sqrt(sum (r - mean)^2 / n),
\* which is S / sqrt(n * sum r^2 - S^2); 0 when empty or std_dev is 0
calculateSharpeRatio(returns) ==
    IF returns = <<>> THEN 0
    ELSE LET S == SumSeq(returns)
             spread == Len(returns) * SumSquares(returns) - S * S
         IN  IF spread > 0 THEN Div(S * BasisPoints * 10, ISqrt(spread * 100)) ELSE 0

RECURSIVE DrawdownFrom(_, _, _, _)
DrawdownFrom(curve, k, peak, max_dd) ==
    IF k > Len(curve) THEN max_dd
    ELSE LET p == IF curve[k] > peak THEN curve[k] ELSE peak
             dd == Div((p - curve[k]) * BasisPoints, p)
         IN  DrawdownFrom(curve, k + 1, p, IF dd > max_dd THEN dd ELSE max_dd)

calculateMaxDrawdown(curve) ==
    IF curve = <<>> THEN 0 ELSE DrawdownFrom(curve, 1, curve[1], 0)

calculateProfitFactor(profits, losses) ==
    LET total_profit == SumSeq(profits)
        total_loss == SumSeq(losses)
    IN  IF total_loss > 0 THEN Div(total_profit * BasisPoints, total_loss)
        ELSE IF total_profit > 0 THEN 1000 * BasisPoints
        ELSE 0

\* a search that would close the trade at the final bar when no bar reaches a level
RECURSIVE FindExitForced(_, _, _, _)
FindExitForced(data, j, stop, target) ==
    IF ~(j < Len(data)) THEN Len(data) - 1
    ELSE IF At(data, j).low <= stop \/ At(data, j).high >= target THEN j
    ELSE FindExitForced(data, j + 1, stop, target)

\* lines 288-304: the first bar j > i whose range touches the stop or the target,
\* -1 when the series ends first
RECURSIVE FindExit(_, _, _, _)
FindExit(data, j, stop, target) ==
    IF ~(j < Len(data)) THEN -1
    ELSE IF At(data, j).low <= stop \/ At(data, j).high >= target THEN j
    ELSE FindExit(data, j + 1, stop, target)

\* locals of evaluateFitness before the loop; log is the history of the trades
EvalStart ==
    [current_equity |-> StartEquity, winning_trades |-> 0, total_trades |-> 0,
     profits |-> <<>>, losses |-> <<>>, equity_curve |-> <<>>, returns |-> <<>>,
     finite |-> TRUE, log |-> <<>>]

\* lines 280-311: one iteration of the loop over i, then the rest of the loop
RECURSIVE EvalLoop(_, _, _, _, _, _)
EvalLoop(gene, data, values, garbage, k, acc) ==
    IF ~(k < Len(data)) THEN acc
    ELSE
      LET signal == generateSignal(gene, data, values, k, garbage)
          j == IF signal.type = "BUY"
               THEN FindExit(data, k + 1, signal.stop_loss, signal.take_profit)
               ELSE -1
          traded == j >= 0
          price == At(data, k).close
          exit_price == IF At(data, j).low <= signal.stop_loss
                        THEN signal.stop_loss ELSE signal.take_profit
          trade_return == Div((exit_price - price) * Milli, price)
          equity == IF traded
                    THEN acc.current_equity
                         + Div(Div(acc.current_equity * trade_return, Milli)
                               * gene.position_size_pct, Milli)
                    ELSE acc.current_equity
          previous == acc.equity_curve[k]
      IN  EvalLoop(gene, data, values, garbage, k + 1,
            [current_equity |-> equity,
             winning_trades |-> acc.winning_trades
                                + (IF traded /\ trade_return > 0 THEN 1 ELSE 0),
             total_trades |-> acc.total_trades + (IF traded THEN 1 ELSE 0),
             profits |-> IF traded /\ trade_return > 0
                         THEN Append(acc.profits, trade_return) ELSE acc.profits,
             losses |-> IF traded /\ ~(trade_return > 0)
                        THEN Append(acc.losses, -trade_return) ELSE acc.losses,
             equity_curve |-> Append(acc.equity_curve, equity),
             returns |-> IF k > 0
                         THEN Append(acc.returns,
                                     Div((equity - previous) * BasisPoints, previous))
                         ELSE acc.returns,
             finite |-> /\ acc.finite
                        /\ (traded => price # 0)
                        /\ (k > 0 => previous # 0),
             log |-> IF traded
                     THEN Append(acc.log, [entry_index |-> k, exit_index |-> j])
                     ELSE acc.log])

\* EvolvedStrategy strategy(gene); the loop; the first generateSignal precomputes
EvalRun(gene, data, garbage) ==
    EvalLoop(gene, data, precomputeIndicators(gene, data), garbage, 0, EvalStart)

\* the result with the total return taken as the final equity over the start
ResultOfEquityRatio(run) ==
    LET total_return == BasisPoints
                        + Div((run.current_equity - StartEquity) * BasisPoints, StartEquity)
        sharpe_ratio == calculateSharpeRatio(run.returns)
        max_drawdown == calculateMaxDrawdown(run.equity_curve)
        win_rate == IF run.total_trades > 0
                    THEN Div(run.winning_trades * BasisPoints, run.total_trades) ELSE 0
        profit_factor == calculateProfitFactor(run.profits, run.losses)
    IN  [total_return |-> total_return, sharpe_ratio |-> sharpe_ratio,
         max_drawdown |-> max_drawdown, win_rate |-> win_rate,
         total_trades |-> run.total_trades, profit_factor |-> profit_factor,
         calmar_ratio |-> IF max_drawdown > 0
                          THEN Div(total_return * BasisPoints, max_drawdown) ELSE 0,
         fitness_score |-> Div(4 * sharpe_ratio + 3 * total_return + 2 * win_rate
                               + profit_factor - 5 * max_drawdown, 10),
         finite |-> run.finite]

\* lines 313-326
ResultOf(run) ==
    LET total_return == Div((run.current_equity - StartEquity) * BasisPoints, StartEquity)
        sharpe_ratio == calculateSharpeRatio(run.returns)
        max_drawdown == calculateMaxDrawdown(run.equity_curve)
        win_rate == IF run.total_trades > 0
                    THEN Div(run.winning_trades * BasisPoints, run.total_trades) ELSE 0
        profit_factor == calculateProfitFactor(run.profits, run.losses)
    IN  [total_return |-> total_return, sharpe_ratio |-> sharpe_ratio,
         max_drawdown |-> max_drawdown, win_rate |-> win_rate,
         total_trades |-> run.total_trades, profit_factor |-> profit_factor,
         calmar_ratio |-> IF max_drawdown > 0
                          THEN Div(total_return * BasisPoints, max_drawdown) ELSE 0,
         fitness_score |-> Div(4 * sharpe_ratio + 3 * total_return + 2 * win_rate
                               + profit_factor - 5 * max_drawdown, 10),
         finite |-> run.finite]

\* an evaluation that would add its score to the fitness the gene carries
evaluateFitnessCarried(gene, data, garbage) ==
    [ResultOf(EvalRun(gene, data, garbage)) EXCEPT !.fitness_score = @ + gene.fitness]

evaluateFitness(gene, data, garbage) == ResultOf(EvalRun(gene, data, garbage))

(***************************************************************************)
(* An EvolvedStrategy bound to a series, and evaluateFitness of its gene:  *)
(* genes and series of the evaluation                                      *)
(***************************************************************************)
\* bars that stay at their close and a wide bar that touches every level
EvalBars ==
    {[timestamp |-> T2020, high |-> 40 * Milli, low |-> 40 * Milli, close |-> 40 * Milli],
     [timestamp |-> T2020, high |-> 60 * Milli, low |-> 60 * Milli, close |-> 60 * Milli],
     [timestamp |-> T2020, high |-> 70 * Milli, low |-> 30 * Milli, close |-> 40 * Milli]}

EvalSeries == SeqsUpTo(EvalBars, MaxBars)

IndicatorTypes == {"SMA", "EMA", "RSI", "MACD", "BB", "ATR", "STOCH", "ADX"}

EntryConditions == {"CROSS_ABOVE", "CROSS_BELOW", "ABOVE", "BELOW", "INSIDE_BB", "OUTSIDE_BB"}

\* short periods, and the longest period StrategyGene::random draws
EvalPrimaryPeriods == {1, 2, 200}

EvalSecondaryPeriods == {1, 200}

EvalGenes ==
    {[DefaultGene EXCEPT !.primary_indicator = pi, !.primary_period = pp,
                         !.secondary_period = sp, !.primary_threshold = 45 * Milli,
                         !.secondary_threshold = 40 * Milli, !.entry_condition = ec,
                         !.stop_loss_pct = 50, !.take_profit_pct = 100] :
        pi \in {"SMA", "RSI", "EMA"}, pp \in EvalPrimaryPeriods,
        sp \in EvalSecondaryPeriods, ec \in EntryConditions}

\* what an out-of-range read of a value array may find
Garbage == {0, 100 * Milli}

EvalInit ==
    /\ gene_ \in EvalGenes
    /\ series \in EvalSeries
    /\ precomputed_ = FALSE
    /\ primary_values_ = <<>>
    /\ secondary_values_ = <<>>
    /\ last_index = -1
    /\ last_signal = NoneSignal
    /\ last_reads = {}
    /\ evaluated = FALSE
    /\ fit_result = DefaultFitnessResult
    /\ fit_log = <<>>
    /\ BacktesterIdle
    /\ OptimizerIdle
    /\ CallerIdle
    /\ GoldenIdle

\* EvolvedStrategy::generateSignal(data, current_index) on the bound series
GenerateSignal ==
    \E current_index \in 0..(Len(series) - 1), garbage \in Garbage :
       LET values == IF precomputed_
                     THEN [primary |-> primary_values_, secondary |-> secondary_values_]
                     ELSE precomputeIndicators(gene_, series)
       IN  /\ primary_values_' = values.primary
           /\ secondary_values_' = values.secondary
           /\ precomputed_' = TRUE
           /\ last_index' = current_index
           /\ last_signal' = generateSignal(gene_, series, values, current_index, garbage)
           /\ last_reads' = generateSignalReads(gene_, current_index)
           /\ UNCHANGED <<gene_, series, evaluated, fit_result, fit_log>>
           /\ UNCHANGED otherThanStrategy

\* GeneticAlgorithm::evaluateFitness(gene) over the series
EvaluateFitness ==
    \E garbage \in Garbage :
       LET run == EvalRun(gene_, series, garbage)
       IN  /\ evaluated' = TRUE
           /\ fit_result' = ResultOf(run)
           /\ fit_log' = run.log
           /\ UNCHANGED <<gene_, series, precomputed_, primary_values_, secondary_values_,
                          last_index, last_signal, last_reads>>
           /\ UNCHANGED otherThanStrategy

EvalNext == GenerateSignal \/ EvaluateFitness

SpecEval == EvalInit /\ [][EvalNext]_vars

(***************************************************************************)
(* Claims about EvolvedStrategy::generateSignal and evaluateFitness        *)
(***************************************************************************)
\* C9: in evaluateFitness at most one position is open at a time: after a
\* trade entered at bar i that exits at bar j > i, no trade is entered at a
\* bar k with i < k < j.
C9_EvaluateOnePosition ==
    evaluated =>
        \A a \in 1..Len(fit_log) : \A b \in 1..Len(fit_log) :
            ~(/\ fit_log[a].entry_index < fit_log[b].entry_index
              /\ fit_log[b].entry_index < fit_log[a].exit_index)

\* C10: generateSignal returns NONE, reading no element of the value arrays
\* out of range, at every index below max(primary_period, secondary_period);
\* for a gene with a period above the series length evaluateFitness completes
\* with zero trades and a finite score.
C10_WarmUpNone ==
    /\ (last_index >= 0
          /\ last_index < Max(gene_.primary_period, gene_.secondary_period) =>
           /\ last_signal.type = "NONE"
           /\ last_reads \subseteq 0..(Len(series) - 1))
    /\ (evaluated /\ Max(gene_.primary_period, gene_.secondary_period) > Len(series) =>
           /\ fit_result.total_trades = 0
           /\ fit_result.finite
           /\ fit_result.fitness_score = 0)

C10_Witness ==
    /\ evaluated
    /\ Len(series) = MaxBars
    /\ gene_.primary_period > Len(series)
    /\ gene_.entry_condition = "CROSS_ABOVE"
    /\ last_index = 0
    /\ last_signal.type = "NONE"
    /\ fit_result.total_trades = 0

(***************************************************************************)
(* GeneticAlgorithm::evolve (src/GeneticStrategy.cpp)                      *)
(***************************************************************************)
PopulationSize == 2

Generations == 2

FlatBar(c) == [timestamp |-> T2020, high |-> c * Milli, low |-> c * Milli, close |-> c * Milli]

\* the series handed to the constructor: eight bars, so that genes of period 5
\* can trade at bars 5 and 6
GAData ==
    <<FlatBar(40), FlatBar(60), FlatBar(60), FlatBar(40), FlatBar(40), FlatBar(40),
      [timestamp |-> T2020, high |-> 40 * Milli, low |-> 37 * Milli, close |-> 40 * Milli],
      FlatBar(60)>>

\* draws of a period distribution that would start below 5
GAGenesBelowRange ==
    {[DefaultGene EXCEPT !.primary_period = pp, !.secondary_period = 5,
                         !.primary_threshold = 45 * Milli,
                         !.entry_condition = ec, !.take_profit_pct = tp] :
        pp \in {4, 5}, ec \in {"ABOVE", "BELOW"}, tp \in {40, 80}}

\* the draws of StrategyGene::random and StrategyGene::mutate, each inside the
\* range of its distribution; the other fields are drawn as one value
GAGenes ==
    {[DefaultGene EXCEPT !.primary_period = 5, !.secondary_period = 5,
                         !.primary_threshold = 45 * Milli,
                         !.entry_condition = ec, !.take_profit_pct = tp] :
        ec \in {"ABOVE", "BELOW"}, tp \in {40, 80}}

\* the parameters of a gene, its fitness set aside
SameParameters(a, b) == [a EXCEPT !.fitness = 0] = [b EXCEPT !.fitness = 0]

\* std::max_element(..., a.fitness < b.fitness): the first of the largest
MaxElement(pop) ==
    CHOOSE k \in 1..Len(pop) :
        /\ \A m \in 1..Len(pop) : pop[m].fitness <= pop[k].fitness
        /\ \A m \in 1..(k - 1) : pop[m].fitness < pop[k].fitness

\* StrategyGene::crossover: a default-constructed child, each parameter taken
\* from this or from other; fitness keeps its initializer
Children(this, other) ==
    {[primary_indicator |-> f1, secondary_indicator |-> f2, primary_period |-> f3,
      secondary_period |-> f4, primary_threshold |-> f5, secondary_threshold |-> f6,
      entry_condition |-> f7, exit_condition |-> f8, risk_reward_ratio |-> f9,
      stop_loss_pct |-> f10, take_profit_pct |-> f11, max_hold_time |-> f12,
      position_size_pct |-> f13, fitness |-> DefaultGene.fitness] :
        f1 \in {this.primary_indicator, other.primary_indicator},
        f2 \in {this.secondary_indicator, other.secondary_indicator},
        f3 \in {this.primary_period, other.primary_period},
        f4 \in {this.secondary_period, other.secondary_period},
        f5 \in {this.primary_threshold, other.primary_threshold},
        f6 \in {this.secondary_threshold, other.secondary_threshold},
        f7 \in {this.entry_condition, other.entry_condition},
        f8 \in {this.exit_condition, other.exit_condition},
        f9 \in {this.risk_reward_ratio, other.risk_reward_ratio},
        f10 \in {this.stop_loss_pct, other.stop_loss_pct},
        f11 \in {this.take_profit_pct, other.take_profit_pct},
        f12 \in {this.max_hold_time, other.max_hold_time},
        f13 \in {this.position_size_pct, other.position_size_pct}}

\* StrategyGene::mutate: every parameter kept or drawn again, fitness untouched
Mutations(gene) == {[m EXCEPT !.fitness = gene.fitness] : m \in GAGenes}

\* lines 334-341: a first draw, then two candidates that win when strictly fitter
Tournament(pop, draws) ==
    LET first == draws[1]
        second == IF pop[draws[2]].fitness > pop[first].fitness THEN draws[2] ELSE first
        third == IF pop[draws[3]].fitness > pop[second].fitness THEN draws[3] ELSE second
    IN  pop[third]

TournamentWinners(pop) ==
    {Tournament(pop, draws) : draws \in [1..3 -> 1..Len(pop)]}

\* GeneticAlgorithm::crossover from pair k on: every population it can leave
RECURSIVE CrossoverFrom(_, _)
CrossoverFrom(pop, k) ==
    IF ~(k < Len(pop) - 1) THEN {pop}
    ELSE LET crossed == {[pop EXCEPT ![k + 1] = child1, ![k + 2] = child2] :
                            child1 \in Children(At(pop, k), At(pop, k + 1)),
                            child2 \in Children(At(pop, k + 1), At(pop, k))}
         IN  UNION {CrossoverFrom(q, k + 2) : q \in {pop} \cup crossed}

GAInit ==
    /\ ga_data_ = GAData
    /\ population_ = <<>>
    /\ best_strategy_ = DefaultGene
    /\ best_fitness_ = DefaultFitnessResult
    /\ ga_pc = "initialize"
    /\ generation = 0
    /\ recorded = 0
    /\ BacktesterIdle
    /\ StrategyIdle
    /\ CallerIdle
    /\ GoldenIdle

\* a loop that would stop once a generation has run
LoopAtEarlyStop(g) == IF g < 1 THEN "evaluate" ELSE "done"

\* where the loop of evolve() goes with the generation counter at g
LoopAt(g) == IF g < Generations THEN "evaluate" ELSE "done"

\* initializePopulation(): population_size_ genes from StrategyGene::random
InitializePopulation ==
    /\ ga_pc = "initialize"
    /\ population_' \in [1..PopulationSize -> GAGenes]
    /\ ga_pc' = LoopAt(0)
    /\ UNCHANGED <<ga_data_, best_strategy_, best_fitness_, generation, recorded>>
    /\ UNCHANGED otherThanOptimizer

\* evaluatePopulation(): gene.fitness = evaluateFitness(gene).fitness_score
EvaluatePopulation ==
    /\ ga_pc = "evaluate"
    /\ \E garbage \in Garbage :
          population_' =
              [k \in 1..Len(population_) |->
                  [population_[k] EXCEPT
                      !.fitness = evaluateFitness(population_[k], ga_data_,
                                                  garbage).fitness_score]]
    /\ ga_pc' = "record"
    /\ UNCHANGED <<ga_data_, best_strategy_, best_fitness_, generation, recorded>>
    /\ UNCHANGED otherThanOptimizer

AnyFitness(candidate, best) == TRUE

\* line 238: best_in_gen->fitness > best_strategy_.fitness
Better(candidate, best) == candidate > best

\* lines 235-243: the best of the generation replaces best_strategy_ when fitter
RecordBest ==
    /\ ga_pc = "record"
    /\ LET best_in_gen == population_[MaxElement(population_)]
       IN  IF Better(best_in_gen.fitness, best_strategy_.fitness)
           THEN /\ best_strategy_' = best_in_gen
                /\ \E garbage \in Garbage :
                      best_fitness_' = evaluateFitness(best_in_gen, ga_data_, garbage)
                /\ recorded' = recorded + 1
           ELSE UNCHANGED <<best_strategy_, best_fitness_, recorded>>
    /\ ga_pc' = "select"
    /\ UNCHANGED <<ga_data_, population_, generation>>
    /\ UNCHANGED otherThanOptimizer

\* selectParents(): every slot is the winner of a tournament
SelectParents ==
    /\ ga_pc = "select"
    /\ population_' \in [1..Len(population_) -> TournamentWinners(population_)]
    /\ ga_pc' = "crossover"
    /\ UNCHANGED <<ga_data_, best_strategy_, best_fitness_, generation, recorded>>
    /\ UNCHANGED otherThanOptimizer

\* crossover(): each pair (0,1), (2,3), ... is replaced by two children or kept
Crossover ==
    /\ ga_pc = "crossover"
    /\ population_' \in CrossoverFrom(population_, 0)
    /\ ga_pc' = "mutate"
    /\ UNCHANGED <<ga_data_, best_strategy_, best_fitness_, generation, recorded>>
    /\ UNCHANGED otherThanOptimizer

\* mutate(): gene.mutate(rng_, mutation_rate_) on every gene
Mutate ==
    /\ ga_pc = "mutate"
    /\ \E m \in [1..Len(population_) -> GAGenes] :
          population_' = [k \in 1..Len(population_) |->
                             [m[k] EXCEPT !.fitness = population_[k].fitness]]
    /\ ga_pc' = "elitism"
    /\ UNCHANGED <<ga_data_, best_strategy_, best_fitness_, generation, recorded>>
    /\ UNCHANGED otherThanOptimizer

\* elitism(), then ++generation and the loop test
Elitism ==
    /\ ga_pc = "elitism"
    /\ LET best == MaxElement(population_)
       IN  population_' = IF best_strategy_.fitness > population_[best].fitness
                          THEN [population_ EXCEPT ![best] = best_strategy_]
                          ELSE population_
    /\ generation' = generation + 1
    /\ ga_pc' = LoopAt(generation + 1)
    /\ UNCHANGED <<ga_data_, best_strategy_, best_fitness_, recorded>>
    /\ UNCHANGED otherThanOptimizer

GANext ==
    \/ InitializePopulation
    \/ EvaluatePopulation
    \/ RecordBest
    \/ SelectParents
    \/ Crossover
    \/ Mutate
    \/ Elitism

SpecGA == GAInit /\ [][GANext]_vars

(***************************************************************************)
(* Claims about GeneticAlgorithm::evolve                                   *)
(***************************************************************************)
\* C7: no step of evolve() lowers best_strategy_.fitness.
C7_BestFitnessNonDecreasing ==
    [][best_strategy_'.fitness >= best_strategy_.fitness]_vars

C7_Witness ==
    /\ ga_pc = "done"
    /\ recorded >= 2
    /\ best_strategy_.fitness > 0

\* C8: at the end of every generation, once a best gene has been recorded, the
\* population holds a gene with the parameters of best_strategy_.
C8_ElitismKeepsBest ==
    (ga_pc \in {"evaluate", "done"} /\ generation > 0 /\ recorded > 0) =>
        \E k \in 1..Len(population_) : SameParameters(population_[k], best_strategy_)


(***************************************************************************)
(* A Backtester bound to an EvolvedStrategy whose run() is called more     *)
(* than once, next to evaluateFitness over the same series                 *)
(***************************************************************************)
MaxRuns == 2

\* moving-average genes; take_profit_pct equal to and different from
\* risk_reward_ratio * stop_loss_pct
RunGenes ==
    {[g EXCEPT !.take_profit_pct = tp] :
        g \in {e \in EvalGenes : e.primary_indicator = "SMA" /\ e.secondary_period = 1},
        tp \in {50, 100}}

\* Backtester bt(series, &strategy, initial_equity) with EvolvedStrategy strategy(gene)
RunInit ==
    /\ gene_ \in RunGenes
    /\ series \in EvalSeries
    /\ precomputed_ = FALSE
    /\ primary_values_ = <<>>
    /\ secondary_values_ = <<>>
    /\ last_index = -1
    /\ last_signal = NoneSignal
    /\ last_reads = {}
    /\ evaluated = FALSE
    /\ fit_result = DefaultFitnessResult
    /\ fit_log = <<>>
    /\ data_ = series
    /\ strategy_ = [k \in {} |-> NoneSignal]
    /\ avx2 \in BOOLEAN
    /\ initial_equity_ = InitialEquity * Milli
    /\ equity_ = InitialEquity * Milli
    /\ yearly_pnl_ = EmptyMap
    /\ equity_curve_ = <<>>
    /\ total_trades_ = 0
    /\ winning_trades_ = 0
    /\ pc = "start"
    /\ i = 0
    /\ in_position = FALSE
    /\ entry_price = 0
    /\ stop_loss = 0
    /\ take_profit = 0
    /\ entry_date = <<>>
    /\ opened = 0
    /\ trades = <<>>
    /\ entry_index = 0
    /\ OptimizerIdle
    /\ CallerIdle
    /\ GoldenIdle

\* Backtester.cpp line 40 with strategy_ an EvolvedStrategy: generateSignal(data_, i)
BarFlatEvolved ==
    \E garbage \in Garbage :
       LET values == IF precomputed_
                     THEN [primary |-> primary_values_, secondary |-> secondary_values_]
                     ELSE precomputeIndicators(gene_, data_)
           sig == generateSignal(gene_, data_, values, i, garbage)
       IN  /\ BarFlatOn(sig)
           /\ primary_values_' = values.primary
           /\ secondary_values_' = values.secondary
           /\ precomputed_' = TRUE
           /\ last_index' = i
           /\ last_signal' = sig
           /\ last_reads' = generateSignalReads(gene_, i)
           /\ UNCHANGED <<strategy_, gene_, series, evaluated, fit_result, fit_log>>
           /\ UNCHANGED <<gaVars, callerVars, goldenVars>>

\* what a call of run() has left in the Backtester
LeftBehind ==
    [equity |-> equity_, yearly |-> yearly_pnl_, curve |-> Len(equity_curve_),
     trades |-> Len(trades)]

\* run() is called again on the same Backtester: nothing is reset before line 12
RunAgain ==
    /\ pc = "done"
    /\ runs < MaxRuns - 1
    /\ pc' = "start"
    /\ runs' = runs + 1
    /\ first_run' = IF runs = 0 THEN LeftBehind ELSE first_run
    /\ UNCHANGED <<data_, strategy_, avx2, initial_equity_, equity_, yearly_pnl_,
                   equity_curve_, total_trades_, winning_trades_, i, in_position,
                   entry_price, stop_loss, take_profit, entry_date, opened, trades,
                   entry_index>>
    /\ UNCHANGED <<esVars, gaVars, goldenVars>>

\* run() is a synchronous call: the caller evaluates a gene before or after it
EvaluateBetweenRuns ==
    /\ pc \in {"start", "done"}
    /\ EvaluateFitness

RunNext ==
    RunBegin \/ BarFlatEvolved \/ BarInPosition \/ RunEnd \/ RunAgain
        \/ EvaluateBetweenRuns

SpecRun == RunInit /\ [][RunNext]_vars

(***************************************************************************)
(* Claims about series too short to trade                                  *)
(***************************************************************************)
\* C11: on a series of zero or one bar Backtester::run ends with the final
\* equity equal to the initial equity, no yearly bucket and no trade, and
\* evaluateFitness reports zero trades and a total return of 0, whatever the
\* gene.
C11_ShortSeries ==
    Len(series) <= 1 =>
        /\ (pc = "done" =>
               /\ getFinalEquity = initial_equity_
               /\ yearly_pnl_ = EmptyMap
               /\ opened = 0
               /\ trades = <<>>)
        /\ (evaluated =>
               /\ fit_result.total_trades = 0
               /\ fit_result.total_return = 0
               /\ fit_log = <<>>)

\* a one-bar series has been run and evaluated with a gene whose entry
\* condition the bar would satisfy past the warm-up
C11_Witness ==
    /\ Len(series) = 1
    /\ series[1].close = 60 * Milli
    /\ gene_.primary_period = 1
    /\ gene_.entry_condition = "ABOVE"
    /\ pc = "done"
    /\ evaluated
    /\ Len(equity_curve_) >= 1

(***************************************************************************)
(* Claims about the levels of an EvolvedStrategy BUY                       *)
(***************************************************************************)
\* C12: every BUY of an EvolvedStrategy has its target at risk_reward_ratio
\* times the distance of its stop from the entry close:
\* take_profit - close = risk_reward_ratio * (close - stop_loss).
C12_RiskRewardLevels ==
    last_signal.type = "BUY" =>
        LET close == At(series, last_index).close
        IN  (last_signal.take_profit - close) * Milli
                = gene_.risk_reward_ratio * (close - last_signal.stop_loss)

(***************************************************************************)
(* Claims about calling Backtester::run again                              *)
(***************************************************************************)
\* C19: run() resets nothing. A later run() on the same Backtester starts
\* from the equity, the yearly buckets and the equity curve the earlier one
\* left, realizes the same PnL again on top of them and appends to the
\* curve; its results equal those of a single run only when no PnL was
\* realized, and even then the curve is longer.
C19_RunAccumulates ==
    /\ (pc = "start" /\ runs = 1 =>
           /\ equity_ = first_run.equity
           /\ yearly_pnl_ = first_run.yearly
           /\ Len(equity_curve_) = first_run.curve)
    /\ (pc = "done" /\ runs >= 1 =>
           /\ equity_ - initial_equity_
                 = (runs + 1) * (first_run.equity - initial_equity_)
           /\ DOMAIN yearly_pnl_ = DOMAIN first_run.yearly
           /\ \A y \in DOMAIN yearly_pnl_ :
                 yearly_pnl_[y] = (runs + 1) * first_run.yearly[y]
           /\ Len(equity_curve_) = (runs + 1) * first_run.curve
           /\ Len(trades) = (runs + 1) * first_run.trades
           /\ (equity_ = first_run.equity <=> first_run.equity = initial_equity_)
           /\ Len(equity_curve_) > first_run.curve)

\* a second run() has returned after a first one that realized a PnL
C19_Witness ==
    /\ pc = "done"
    /\ runs = 1
    /\ first_run.trades >= 1
    /\ first_run.equity # initial_equity_
    /\ first_run.yearly # EmptyMap
    /\ equity_ # first_run.equity

(***************************************************************************)
(* Claims about Indicators::RSI                                            *)
(***************************************************************************)
\* the closes of bars from..to and of the bar before them
WindowCloses(data, end_index, period) ==
    {At(data, j).close : j \in (end_index - period)..end_index}

\* some close of the window is above the one before it, none is below
GainsOnly(data, end_index, period) ==
    /\ \A j \in (end_index - period + 1)..end_index :
          At(data, j).close >= At(data, j - 1).close
    /\ \E j \in (end_index - period + 1)..end_index :
          At(data, j).close > At(data, j - 1).close

\* the RSI arrays an EvolvedStrategy has precomputed, with their periods
RSIArrays ==
    (IF gene_.primary_indicator = "RSI"
     THEN {[values |-> primary_values_, period |-> gene_.primary_period]} ELSE {})
    \cup (IF gene_.secondary_indicator = "RSI"
          THEN {[values |-> secondary_values_, period |-> gene_.secondary_period]} ELSE {})

\* C17: RSI(data, i, period) lies in [0, 100]; it is exactly 50 when
\* i < period and when no close of the window differs from the one before
\* it; with gains and no loss in the window it still returns a value of the
\* range (the division by a zero average loss is not made).
C17_RSIRange ==
    precomputed_ =>
        \A a \in RSIArrays : \A k \in 0..(Len(series) - 1) :
            LET v == At(a.values, k)
            IN  /\ v \in 0..(100 * Milli)
                /\ (k < a.period => v = 50 * Milli)
                /\ (k >= a.period /\ Cardinality(WindowCloses(series, k, a.period)) = 1
                      => v = 50 * Milli)
                /\ (k >= a.period /\ GainsOnly(series, k, a.period)
                      => v \in 1..(100 * Milli))

\* a period-2 RSI over closes 40, 40, 40, 60: neutral inside the warm-up and
\* on the flat window, and in range on the window that only gains
C17_Witness ==
    /\ precomputed_
    /\ gene_.primary_indicator = "RSI"
    /\ gene_.primary_period = 2
    /\ Len(series) = 4
    /\ \A k \in 0..2 : At(series, k).close = 40 * Milli
    /\ At(series, 3).close = 60 * Milli
    /\ At(primary_values_, 1) = 50 * Milli
    /\ At(primary_values_, 2) = 50 * Milli
    /\ At(primary_values_, 3) = 100 * Milli

(***************************************************************************)
(* Claims about what evaluateFitness reads and writes                      *)
(***************************************************************************)
\* C20: evaluateFitness(gene) reads only the series and the gene's
\* parameters and leaves the optimizer as it was: evaluating the population
\* changes no gene's parameters, neither the best gene nor its result nor
\* the series; each score is the one the gene gets on its own, whatever the
\* other genes and the order, and genes with equal parameters get equal
\* scores.
C20_EvaluateFrame ==
    [][ga_pc = "evaluate" =>
         /\ Len(population_') = Len(population_)
         /\ \A k \in 1..Len(population_) :
               /\ SameParameters(population_'[k], population_[k])
               /\ \E garbage \in Garbage :
                     population_'[k].fitness
                       = evaluateFitness([population_[k] EXCEPT !.fitness = 0],
                                         ga_data_, garbage).fitness_score
         /\ \A a \in 1..Len(population_) : \A b \in 1..Len(population_) :
               SameParameters(population_'[a], population_'[b])
                   => population_'[a].fitness = population_'[b].fitness
         /\ best_strategy_' = best_strategy_
         /\ best_fitness_' = best_fitness_
         /\ ga_data_' = ga_data_
         /\ recorded' = recorded]_vars

\* a later generation has been scored in which two genes have the same
\* parameters and a score that is not the default
C20_Witness ==
    /\ ga_pc = "record"
    /\ generation >= 1
    /\ Len(population_) >= 2
    /\ SameParameters(population_[1], population_[2])
    /\ population_[1].fitness = population_[2].fitness
    /\ population_[1].fitness # 0

(***************************************************************************)
(* Indicators::detectFVG and Indicators::calculateBatchIndicators          *)
(* (src/MovingAverage.cpp)                                                 *)
(***************************************************************************)
Min(a, b) == IF a < b THEN a ELSE b

\* lines 175-198: gap_threshold = 0.001 on the high and low of adjacent bars
detectFVG(data, end_index) ==
    IF end_index < 2 THEN FALSE
    ELSE LET prev == At(data, end_index - 1)
             curr == At(data, end_index)
         IN  \/ curr.low * 1000 > prev.high * 1001
             \/ curr.high * 1000 < prev.low * 999

\* lines 201-243: the sliding-window sum of the closes over sma_period for
\* i >= sma_period - 1 when n >= sma_period, RSI() for i >= rsi_period, then
\* the leading 0.0 and 50.0
calculateBatchIndicators(data, sma_period, rsi_period) ==
    LET n == Len(data)
    IN  [sma_period |-> sma_period, rsi_period |-> rsi_period,
         sma_values |->
            [k \in 1..n |->
                IF k - 1 < Min(sma_period - 1, n) THEN 0
                ELSE IF n >= sma_period
                     THEN Div(SumClose(data, k - sma_period, k - 1), sma_period)
                     ELSE 0],
         rsi_values |->
            [k \in 1..n |->
                IF k - 1 < Min(rsi_period, n) THEN 50 * Milli
                ELSE RSI(data, k - 1, rsi_period)]]

(***************************************************************************)
(* Strategy::calculateDynamicPeriods and GoldenFoundationStrategy          *)
(* (src/Strategy.cpp, include/Strategy.hpp)                                *)
(***************************************************************************)
\* parseTimestamp: the day a timestamp of the model falls on, counted from
\* 2020-01-01 (2021-06-01 is 366 + 151 days later)
DayOf(timestamp) == IF timestamp = T2021 THEN 517 ELSE 0

\* lines 18-23
calculateDaysBetween(start_timestamp, end_timestamp) ==
    DayOf(end_timestamp) - DayOf(start_timestamp)

\* lines 26-55: {50, 14} below two bars, else days/3 in 20..200 and days/20 in 7..50
calculateDynamicPeriods(data) ==
    IF Len(data) < 2 THEN <<50, 14>>
    ELSE LET total_days == calculateDaysBetween(data[1].timestamp,
                                                data[Len(data)].timestamp)
         IN  <<Min(Max(20, total_days \div 3), 200), Min(Max(7, total_days \div 20), 50)>>

\* a target as far above the entry as the stop is below it
targetOneToOne(entry, stop, risk_reward) == entry + (entry - stop)

\* lines 125-126: stop_loss_pct = 0.005 / risk_reward_; entry - entry * stop_loss_pct
stopLevel(entry, risk_reward) == entry - Div(entry * 5, risk_reward)

\* line 127: entry + (entry - stops_[i]) * risk_reward_
targetLevel(entry, stop, risk_reward) == entry + Div((entry - stop) * risk_reward, Milli)

\* lines 89-134 with the periods, the threshold and the ratio in scope there
signalArrays(data, sma_period, rsi_period, rsi_oversold, risk_reward) ==
    LET sma == [k \in 1..Len(data) |-> SMA(data, k - 1, sma_period)]
        rsi == [k \in 1..Len(data) |-> RSI(data, k - 1, rsi_period)]
        buy == [k \in 1..Len(data) |->
                   /\ ~(k - 1 < Max(sma_period, rsi_period))
                   /\ data[k].close > sma[k]
                   /\ rsi[k] < rsi_oversold
                   /\ detectFVG(data, k - 1)]
        stops == [k \in 1..Len(data) |->
                     IF buy[k] THEN stopLevel(data[k].close, risk_reward) ELSE 0]
    IN  [sma_values_ |-> sma, rsi_values_ |-> rsi,
         signals_ |-> [k \in 1..Len(data) |-> IF buy[k] THEN 1 ELSE 0],
         stops_ |-> stops,
         targets_ |-> [k \in 1..Len(data) |->
                          IF buy[k]
                          THEN targetLevel(data[k].close, stops[k], risk_reward)
                          ELSE 0]]

\* GoldenFoundationStrategy::precomputeSignals, lines 77-138: the periods come
\* from calculateDynamicPeriods, the threshold is the local constant 30.0
precomputeSignals(g, data) ==
    IF data = <<>> THEN g
    ELSE LET periods == calculateDynamicPeriods(data)
             a == signalArrays(data, periods[1], periods[2], 30 * Milli, g.risk_reward_)
         IN  [g EXCEPT !.sma_period_ = periods[1], !.rsi_period_ = periods[2],
                       !.sma_values_ = a.sma_values_, !.rsi_values_ = a.rsi_values_,
                       !.signals_ = a.signals_, !.stops_ = a.stops_,
                       !.targets_ = a.targets_, !.precomputed_ = TRUE]

\* generateSignal of both canonical strategies past the precomputation
\* (Strategy.cpp lines 145-159, GPUStrategy.cpp lines 133-145)
signalFrom(g, current_index) ==
    IF current_index >= Len(g.signals_) THEN NoneSignal
    ELSE IF At(g.signals_, current_index) = 1
         THEN BuySignal(At(g.stops_, current_index), At(g.targets_, current_index))
         ELSE NoneSignal

(***************************************************************************)
(* GPUGoldenFoundationStrategy (src/GPUStrategy.cpp)                       *)
(***************************************************************************)
\* line 54: the arguments the kernel is not launched with
InvalidArguments(n, sma_period, rsi_period) ==
    n <= 0 \/ sma_period < 2 \/ rsi_period < 2 \/ sma_period > n \/ rsi_period > n

\* line 112: entry * (1.0 - stop_loss_pct)
fallbackStop(entry, risk_reward) == Div(entry * (risk_reward - 5), risk_reward)

\* lines 89-126, cpu_fallback: batch indicators, then a gap of 1% between
\* adjacent closes
cpuFallback(g, data, sma_period, rsi_period, rsi_oversold) ==
    LET b == calculateBatchIndicators(data, sma_period, rsi_period)
        buy == [k \in 1..Len(data) |->
                   /\ ~(k - 1 < Max(sma_period, rsi_period))
                   /\ data[k].close > b.sma_values[k]
                   /\ b.rsi_values[k] < rsi_oversold
                   /\ k - 1 >= 1
                   /\ \/ data[k].close * 100 > data[k - 1].close * 101
                      \/ data[k].close * 100 < data[k - 1].close * 99]
        stops == [k \in 1..Len(data) |->
                     IF buy[k] THEN fallbackStop(data[k].close, g.risk_reward_) ELSE 0]
    IN  [g EXCEPT !.sma_values_ = b.sma_values, !.rsi_values_ = b.rsi_values,
                  !.signals_ = [k \in 1..Len(data) |-> IF buy[k] THEN 1 ELSE 0],
                  !.stops_ = stops,
                  !.targets_ = [k \in 1..Len(data) |->
                                   IF buy[k]
                                   THEN targetLevel(data[k].close, stops[k],
                                                    g.risk_reward_)
                                   ELSE 0],
                  !.precomputed_ = TRUE]

\* lines 66-70: gpu_calculate_all_indicators_and_signals is not part of the
\* sources; it fills the five arrays. What it may leave: no signal at all, or
\* a BUY at the last bar with the levels of the canonical rule.
kernelOutputs(g, data, sma_period, rsi_period) ==
    LET n == Len(data)
        b == calculateBatchIndicators(data, sma_period, rsi_period)
        none == [g EXCEPT !.sma_values_ = b.sma_values, !.rsi_values_ = b.rsi_values,
                          !.signals_ = [k \in 1..n |-> 0],
                          !.stops_ = [k \in 1..n |-> 0],
                          !.targets_ = [k \in 1..n |-> 0]]
        stop == stopLevel(data[n].close, g.risk_reward_)
    IN  {none,
         [none EXCEPT !.signals_[n] = 1, !.stops_[n] = stop,
                      !.targets_[n] = targetLevel(data[n].close, stop, g.risk_reward_)]}

(***************************************************************************)
(* The canonical strategies and the batch indicators over one series       *)
(***************************************************************************)
\* thirteen bars at 50, a jump to 100 and six bars falling by 1: at bar 20
\* the 20-bar average is far below and the 7-bar oscillator sees losses only
DeclinePrefix ==
    [k \in 1..20 |-> IF k <= 13 THEN FlatBar(50) ELSE FlatBar(100 - (k - 14))]

\* the bar of a series without gaps
LevelBar ==
    [timestamp |-> T2020, high |-> 101 * Milli, low |-> 99 * Milli, close |-> 100 * Milli]

\* twenty-one of them: bar 20 is past the warm-up of the periods 20 and 7
LevelPrefix == [k \in 1..21 |-> LevelBar]

\* after the bar at 94: 93 is a gap by both tests, 93.5 a gap of the highs
\* and lows only
GoldenBars ==
    {FlatBar(93),
     [timestamp |-> T2020, high |-> 93500, low |-> 93500, close |-> 93500]}

\* short series, series past the warm-up, and one that ends 517 days after
\* it began
GoldenSeries ==
    {prefix \o tail : prefix \in {<<>>, DeclinePrefix, LevelPrefix},
                      tail \in SeqsUpTo(GoldenBars, MaxBars)}
    \cup {Append(DeclinePrefix, [FlatBar(93) EXCEPT !.timestamp = T2021])}

GoldenRiskRewards == {1 * Milli, 3 * Milli}

\* what the vector loop averages to: below every close of the model (volumes
\* of 0) and above every close (volumes in the thousands)
StrayMeans == {20 * Milli, 1000 * Milli}

\* setSMA(p), setRSI(q, t) as strategy_grid_search.cpp calls them
ConfiguredSMA == {2}

ConfiguredRSI == {<<2, 60 * Milli>>}

\* sma_period and rsi_period of a call of calculateBatchIndicators
BatchPeriods == {<<1, 1>>, <<2, 7>>, <<20, 7>>}

GoldenInit ==
    /\ golden_data \in GoldenSeries
    /\ \/ sse2 = FALSE /\ stray_mean = 0
       \/ sse2 = TRUE /\ stray_mean \in StrayMeans
    /\ \E risk_reward \in GoldenRiskRewards :
          /\ golden = NewGolden(risk_reward)
          /\ gpu_golden = NewGPUGolden(risk_reward)
    /\ gpu_path = "none"
    /\ batch = NoBatch
    /\ BacktesterIdle
    /\ StrategyIdle
    /\ OptimizerIdle
    /\ CallerIdle

\* include/Strategy.hpp lines 43-44, strategy_grid_search.cpp lines 73-74
Configure ==
    /\ \E p \in ConfiguredSMA, qt \in ConfiguredRSI :
          golden' = [golden EXCEPT !.sma_period_ = p, !.rsi_period_ = qt[1],
                                   !.rsi_oversold_ = qt[2]]
    /\ UNCHANGED <<sse2, stray_mean, golden_data, gpu_golden, gpu_path, batch>>
    /\ UNCHANGED otherThanGolden

\* GoldenFoundationStrategy::generateSignal(data, current_index), lines 140-160
GoldenGenerateSignal ==
    /\ \E current_index \in {0, Len(golden_data)} :
          golden' = IF golden.precomputed_ THEN golden
                    ELSE precomputeSignals(golden, golden_data)
    /\ UNCHANGED <<sse2, stray_mean, golden_data, gpu_golden, gpu_path, batch>>
    /\ UNCHANGED otherThanGolden

\* GPUGoldenFoundationStrategy::precomputeSignals(data), lines 21-127
GPUPrecomputeSignals ==
    /\ ~gpu_golden.precomputed_
    /\ LET n == Len(golden_data)
           periods == calculateDynamicPeriods(golden_data)
       IN  IF golden_data = <<>>
           THEN /\ gpu_path' = "empty"
                /\ UNCHANGED gpu_golden
           ELSE IF InvalidArguments(n, periods[1], periods[2])
           THEN /\ gpu_path' = "skipped"
                /\ gpu_golden' = cpuFallback(gpu_golden, golden_data, periods[1],
                                             periods[2], 30 * Milli)
           ELSE \E out \in kernelOutputs(gpu_golden, golden_data, periods[1],
                                         periods[2]) :
                   IF \A k \in 1..n : out.signals_[k] # 1
                   THEN /\ gpu_path' = "no_signals"
                        /\ gpu_golden' = cpuFallback(out, golden_data, periods[1],
                                                     periods[2], 30 * Milli)
                   ELSE /\ gpu_path' = "kernel"
                        /\ gpu_golden' = [out EXCEPT !.precomputed_ = TRUE]
    /\ UNCHANGED <<sse2, stray_mean, golden_data, golden, batch>>
    /\ UNCHANGED otherThanGolden

\* Indicators::calculateBatchIndicators(data, sma_values, rsi_values, p, q)
CalculateBatchIndicators ==
    /\ \E periods \in BatchPeriods :
          batch' = calculateBatchIndicators(golden_data, periods[1], periods[2])
    /\ UNCHANGED <<sse2, stray_mean, golden_data, golden, gpu_golden, gpu_path>>
    /\ UNCHANGED otherThanGolden

GoldenNext ==
    Configure \/ GoldenGenerateSignal \/ GPUPrecomputeSignals \/ CalculateBatchIndicators

SpecGolden == GoldenInit /\ [][GoldenNext]_vars

(***************************************************************************)
(* Claims about the canonical strategy                                     *)
(***************************************************************************)
\* C13: every BUY the GoldenFoundationStrategy returns, with a risk/reward
\* ratio above 0 at a bar whose close c is above 0, has stop_loss < c <
\* take_profit and take_profit - c = risk_reward * (c - stop_loss).
C13_GoldenLevels ==
    golden.precomputed_ =>
        \A current_index \in 0..(Len(golden_data) - 1) :
            LET signal == signalFrom(golden, current_index)
                c == At(golden_data, current_index).close
            IN  signal.type = "BUY" /\ golden.risk_reward_ > 0 /\ c > 0 =>
                    /\ signal.stop_loss < c
                    /\ c < signal.take_profit
                    /\ (signal.take_profit - c) * Milli
                          = golden.risk_reward_ * (c - signal.stop_loss)

\* the strategy with ratio 3 has answered BUY at bar 20, the close of 93
\* after the decline
C13_Witness ==
    /\ golden.precomputed_
    /\ golden.risk_reward_ = 3 * Milli
    /\ Len(golden_data) >= 21
    /\ At(golden_data, 20).close = 93 * Milli
    /\ signalFrom(golden, 20) = BuySignal(92845, 93465)

\* the mean of the closes of the period bars that end at end_index
MeanClose(data, end_index, period) ==
    Div(SumClose(data, end_index + 1 - period, end_index), period)

\* the three conditions of the canonical rule at bar index, for the periods
\* the strategy has computed its signals with
Confluence(data, index, periods) ==
    /\ index >= Max(periods[1], periods[2])
    /\ At(data, index).close > MeanClose(data, index, periods[1])
    /\ RSI(data, index, periods[2]) < 30 * Milli
    /\ detectFVG(data, index)

\* C14: the canonical strategy answers BUY at index i exactly when
\* i >= max(sma_period, rsi_period) and the close is above the moving
\* average, the oscillator is below the oversold threshold and a gap is
\* detected at i; otherwise NONE. A series on which no gap is detected gets
\* no BUY.
C14_ThreeConditions ==
    golden.precomputed_ =>
        /\ \A index \in 0..(Len(golden_data) - 1) :
              /\ signalFrom(golden, index).type \in {"BUY", "NONE"}
              /\ signalFrom(golden, index).type = "BUY"
                    <=> Confluence(golden_data, index,
                                   calculateDynamicPeriods(golden_data))
        /\ ((\A index \in 0..(Len(golden_data) - 1) : ~detectFVG(golden_data, index))
               => \A index \in 0..(Len(golden_data) - 1) :
                      signalFrom(golden, index) = NoneSignal)

\* setSMA(p) and setRSI(q, t) have been called on the strategy
Configured ==
    /\ golden.sma_period_ \in ConfiguredSMA
    /\ <<golden.rsi_period_, golden.rsi_oversold_>> \in ConfiguredRSI

\* C15: after setSMA(p) and setRSI(q, t) the signals the strategy computes use
\* the moving-average period p, the oscillator period q and the oversold
\* threshold t; the precomputation does not replace the configured values.
C15_ConfiguredPeriods ==
    [][Configured /\ ~golden.precomputed_ /\ golden'.precomputed_ =>
         /\ golden'.sma_period_ = golden.sma_period_
         /\ golden'.rsi_period_ = golden.rsi_period_
         /\ golden'.rsi_oversold_ = golden.rsi_oversold_
         /\ golden'.signals_
               = signalArrays(golden_data, golden.sma_period_, golden.rsi_period_,
                              golden.rsi_oversold_, golden.risk_reward_).signals_]_vars

(***************************************************************************)
(* Claims about the batch indicators and the GPU strategy's fallback       *)
(***************************************************************************)
\* C16: for every series, periods of at least 1 and every index i the arrays
\* of calculateBatchIndicators agree with the point-wise functions:
\* sma_values[i] = SMA(series, i, sma_period) and rsi_values[i] =
\* RSI(series, i, rsi_period), the leading 0 and 50 and series shorter than
\* the period included.
C16_BatchAgreesWithPointwise ==
    batch # NoBatch =>
        /\ Len(batch.sma_values) = Len(golden_data)
        /\ Len(batch.rsi_values) = Len(golden_data)
        /\ \A index \in 0..(Len(golden_data) - 1) :
              /\ At(batch.sma_values, index)
                    = SMA(golden_data, index, batch.sma_period)
              /\ At(batch.rsi_values, index)
                    = RSI(golden_data, index, batch.rsi_period)

\* C18: when the kernel leaves no BUY or is skipped for invalid arguments,
\* the GPU strategy falls back to the CPU computation: at every index its
\* signal, stop and target are those of a GoldenFoundationStrategy with the
\* same ratio on the same series; and on every path with a non-empty series
\* precomputed_ becomes true.
C18_FallbackEqualsCPU ==
    /\ (gpu_path \in {"skipped", "no_signals"} =>
           \A index \in 0..Len(golden_data) :
               signalFrom(gpu_golden, index)
                 = signalFrom(precomputeSignals(NewGolden(gpu_golden.risk_reward_),
                                                golden_data), index))
    /\ (gpu_path # "none" /\ golden_data # <<>> => gpu_golden.precomputed_)

(***************************************************************************)
(* Claims about the steps of GeneticAlgorithm::evolve                      *)
(***************************************************************************)
\* the step that follows each step inside a generation
StepAfter ==
    [evaluate |-> "record", record |-> "select", select |-> "crossover",
     crossover |-> "mutate", mutate |-> "elitism"]

\* C21: evolve() runs exactly `generations` generations without an early
\* stop; in each generation the steps come in the order evaluate, record
\* best, select, crossover, mutate, elitism; the step taken from the start
\* of a generation evaluates every gene and changes no parameter, so no
\* later step touches the population before the evaluation; and the
\* population holds exactly N genes after every step.
C21_GenerationSteps ==
    [][/\ Len(population_') = PopulationSize
       /\ (ga_pc = "initialize" =>
              /\ generation' = 0
              /\ ga_pc' = (IF Generations > 0 THEN "evaluate" ELSE "done"))
       /\ (ga_pc \in DOMAIN StepAfter =>
              /\ ga_pc' = StepAfter[ga_pc]
              /\ generation' = generation
              /\ generation < Generations)
       /\ (ga_pc = "evaluate" =>
              \A k \in 1..PopulationSize :
                  /\ SameParameters(population_'[k], population_[k])
                  /\ \E garbage \in Garbage :
                        population_'[k].fitness
                          = evaluateFitness(population_[k], ga_data_,
                                            garbage).fitness_score)
       /\ (ga_pc = "elitism" =>
              /\ generation' = generation + 1
              /\ ga_pc' = (IF generation' = Generations THEN "done" ELSE "evaluate"))
       /\ (ga_pc' = "done" => generation' = Generations)]_vars

\* evolve() has returned after the last generation
C21_Witness ==
    /\ ga_pc = "done"
    /\ generation = Generations
    /\ Generations >= 2
    /\ Len(population_) = PopulationSize
    /\ recorded >= 1

\* the winner of a tournament of size two: the first draw, replaced by the
\* second when that one is strictly fitter
TournamentOfTwo(pop, draws) ==
    IF pop[draws[2]].fitness > pop[draws[1]].fitness THEN pop[draws[2]]
    ELSE pop[draws[1]]

\* C22: when selectParents() runs, the gene it puts in a slot is the fitter of
\* the first two indices it draws, whatever else it draws.
C22_TournamentOfTwo ==
    ga_pc = "select" =>
        \A draws \in [1..3 -> 1..Len(population_)] :
            Tournament(population_, draws) = TournamentOfTwo(population_, draws)

\* the parameters of a gene: every field but the score
GeneFields == DOMAIN DefaultGene \ {"fitness"}

\* C23: the crossover step leaves, in every adjacent pair (0,1), (2,3), ...
\* and for every parameter, the two values the pair held before: one gene of
\* the pair has the one parent's value and the other gene the other parent's.
C23_FieldsSwapped ==
    [][ga_pc = "crossover" =>
          \A k \in 1..(Len(population_) - 1) :
              k % 2 = 1 =>
                  \A f \in GeneFields :
                      \/ /\ population_'[k][f] = population_[k][f]
                         /\ population_'[k + 1][f] = population_[k + 1][f]
                      \/ /\ population_'[k][f] = population_[k + 1][f]
                         /\ population_'[k + 1][f] = population_[k][f]]_vars

ExitConditions == {"FIXED_RR", "TRAILING_STOP", "TIME_BASED", "INDICATOR_SIGNAL"}

\* every parameter of the gene inside the range the optimizer documents
\* (thresholds and risk/reward in thousandths, percentages and the position
\* size in thousandths of the fraction)
InRange(gene) ==
    /\ gene.primary_indicator \in IndicatorTypes
    /\ gene.secondary_indicator \in IndicatorTypes
    /\ gene.entry_condition \in EntryConditions
    /\ gene.exit_condition \in ExitConditions
    /\ gene.primary_period \in 5..200
    /\ gene.secondary_period \in 5..200
    /\ gene.primary_threshold \in (-50 * Milli)..(50 * Milli)
    /\ gene.secondary_threshold \in (-50 * Milli)..(50 * Milli)
    /\ gene.risk_reward_ratio \in (1 * Milli)..(10 * Milli)
    /\ gene.stop_loss_pct \in 5..100
    /\ gene.take_profit_pct \in 5..100
    /\ gene.max_hold_time \in 1..168
    /\ gene.position_size_pct \in 10..500

\* C24: once the population is initialized, and after every later step of
\* evolve(), every gene of the population has every parameter in its range.
C24_GenesInRange ==
    ga_pc # "initialize" =>
        /\ Len(population_) = PopulationSize
        /\ \A k \in 1..Len(population_) : InRange(population_[k])

\* elitism has put the default-constructed best_strategy_ into the population,
\* next to a gene that came out of selection, crossover and mutation
C24_Witness ==
    /\ ga_pc \in {"evaluate", "done"}
    /\ generation >= 1
    /\ \E k \in 1..Len(population_) : SameParameters(population_[k], DefaultGene)
    /\ \E k \in 1..Len(population_) : ~SameParameters(population_[k], DefaultGene)

\* C25: after every generation's record step, best_strategy_ (what
\* getBestStrategy() returns) is a gene of the population just evaluated, or
\* the gene recorded from an earlier evaluated population, and no gene of the
\* population just evaluated has a higher score; so after evolve() it is a
\* member of an evaluated population with the highest score ever assigned.
C25_BestWasEvaluated ==
    [][ga_pc = "record" =>
          /\ \/ \E k \in 1..Len(population_) : best_strategy_' = population_[k]
             \/ recorded > 0 /\ best_strategy_' = best_strategy_
          /\ \A k \in 1..Len(population_) :
                best_strategy_'.fitness >= population_[k].fitness]_vars

\* C26: every gene of the population evolve() returns carries the score
\* evaluateFitness computes for that gene's parameters.
C26_ReturnedFitnessIsCurrent ==
    ga_pc = "done" =>
        \A k \in 1..Len(population_) :
            \E garbage \in Garbage :
                population_[k].fitness
                  = evaluateFitness(population_[k], ga_data_, garbage).fitness_score

(***************************************************************************)
(* Claims about the equity curve and the bar loop of Backtester::run       *)
(***************************************************************************)
\* C27: once run() has returned, the last value of the equity curve is
\* getFinalEquity(), also when the run ended by closing an open position.
C27_CurveEndsAtFinalEquity ==
    pc = "done" => equity_curve_[Len(equity_curve_)] = getFinalEquity

\* the bars run() has offered to the strategy so far
Offered == DOMAIN strategy_

\* C28: run() makes at most one transition per bar. Bar 0 is never offered to
\* the strategy; every position was opened on an offered bar and is tested
\* for its stop and target from the next bar on, so a stop or target exit
\* comes after the entry bar; the bar of a stop or target exit is not
\* offered, so a new entry comes after it; and a step over a bar either asks
\* the strategy or tests the open position, never both.
C28_OneTransitionPerBar ==
    /\ [](/\ 0 \notin Offered
          /\ (in_position => entry_index \in Offered /\ entry_index < i)
          /\ \A t \in 1..Len(trades) :
                /\ trades[t].entry_index \in Offered
                /\ trades[t].how \in {"stop", "target"} =>
                      /\ trades[t].exit_index > trades[t].entry_index
                      /\ trades[t].exit_index \notin Offered
                /\ t > 1 => trades[t].entry_index > trades[t - 1].exit_index)
    /\ [][pc = "loop" /\ pc' = "loop" =>
             /\ i' = i + 1
             /\ (in_position => strategy_' = strategy_)
             /\ (~in_position => Offered' = Offered \cup {i} /\ trades' = trades)
             /\ (in_position' /\ ~in_position => entry_index' = i)
             /\ (trades' # trades => ~in_position' /\ trades'[Len(trades')].exit_index = i)]_vars

\* a position opened at bar 1 was closed by its stop or target at bar 2, and
\* the next position was opened at bar 3
C28_Witness ==
    /\ pc = "done"
    /\ Len(trades) = 2
    /\ trades[1].how \in {"stop", "target"}
    /\ trades[1].entry_index = 1
    /\ trades[1].exit_index = 2
    /\ trades[2].entry_index = 3

(***************************************************************************)
(* Claims about the trades of evaluateFitness and the gene's variants      *)
(***************************************************************************)
\* the signal evaluateFitness gets from its strategy at bar k
EvalSignal(k, garbage) ==
    generateSignal(gene_, series, precomputeIndicators(gene_, series), k, garbage)

\* bar k gives a BUY whose stop and target are reached by no later bar
Unreached(k, garbage) ==
    LET signal == EvalSignal(k, garbage)
    IN  /\ signal.type = "BUY"
        /\ \A j \in (k + 1)..(Len(series) - 1) :
              ~(At(series, j).low <= signal.stop_loss
                  \/ At(series, j).high >= signal.take_profit)

\* C29: evaluateFitness does not close at the final bar a BUY whose stop and
\* target no later bar reaches: total_trades counts the trades of the
\* history only, each of which exits on a bar that reaches a level of its
\* signal, no BUY of that kind is in the history, and when every BUY is of
\* that kind the result has no trade, no profit or loss and a zero return.
C29_NoForcedClose ==
    evaluated =>
        \E garbage \in Garbage :
            /\ fit_result.total_trades = Len(fit_log)
            /\ \A t \in 1..Len(fit_log) :
                  LET signal == EvalSignal(fit_log[t].entry_index, garbage)
                      exit == At(series, fit_log[t].exit_index)
                  IN  /\ signal.type = "BUY"
                      /\ fit_log[t].exit_index > fit_log[t].entry_index
                      /\ exit.low <= signal.stop_loss \/ exit.high >= signal.take_profit
                      /\ ~Unreached(fit_log[t].entry_index, garbage)
            /\ (\A k \in 0..(Len(series) - 1) :
                    EvalSignal(k, garbage).type = "BUY" => Unreached(k, garbage))
                => /\ fit_result.total_trades = 0
                   /\ fit_result.total_return = 0
                   /\ fit_result.win_rate = 0
                   /\ fit_result.profit_factor = 0
                   /\ fit_result.max_drawdown = 0

\* an evaluation in which a BUY is followed by bars that reach neither of its
\* levels, and nothing was traded
C29_Witness ==
    /\ evaluated
    /\ Len(fit_log) = 0
    /\ fit_result.total_trades = 0
    /\ \E k \in 0..(Len(series) - 2) :
          \A garbage \in Garbage : Unreached(k, garbage)

\* the entry test of a gene whose primary indicator is 0 at every index: the
\* primary comparison is the sign of the threshold
SignOnlyEntry(gene, secondary_val) ==
    CASE gene.entry_condition = "ABOVE" ->
            0 > gene.primary_threshold /\ secondary_val > gene.secondary_threshold
      [] gene.entry_condition = "BELOW" ->
            0 < gene.primary_threshold /\ secondary_val < gene.secondary_threshold
      [] OTHER -> FALSE

\* C30: for a primary or secondary indicator kind other than SMA and RSI the
\* precomputed value is 0 at every index, so at a warmed-up bar the signal
\* of a gene with such a primary kind is BUY exactly when the threshold's
\* sign (and, for ABOVE and BELOW, the secondary comparison) allows it, and
\* never for CROSS_ABOVE or CROSS_BELOW; a gene with the entry condition
\* INSIDE_BB or OUTSIDE_BB never gets a BUY and never trades.
C30_UnimplementedVariants ==
    /\ (precomputed_ /\ gene_.primary_indicator \notin {"SMA", "RSI"} =>
           \A k \in 1..Len(primary_values_) : primary_values_[k] = 0)
    /\ (precomputed_ /\ gene_.secondary_indicator \notin {"SMA", "RSI"} =>
           \A k \in 1..Len(secondary_values_) : secondary_values_[k] = 0)
    /\ ((last_index >= 0 /\ ~WarmUp(gene_, last_index)
           /\ gene_.primary_indicator \notin {"SMA", "RSI"}) =>
           (last_signal.type = "BUY"
              <=> SignOnlyEntry(gene_, At(secondary_values_, last_index))))
    /\ (gene_.entry_condition \in {"INSIDE_BB", "OUTSIDE_BB"} =>
           /\ last_signal.type = "NONE"
           /\ evaluated => fit_result.total_trades = 0 /\ fit_log = <<>>)

\* a gene with the primary kind EMA and the entry condition BELOW has got a
\* BUY at a warmed-up bar, and its evaluation has traded
C30_Witness ==
    /\ gene_.primary_indicator = "EMA"
    /\ gene_.entry_condition = "BELOW"
    /\ precomputed_
    /\ last_index >= Max(gene_.primary_period, gene_.secondary_period)
    /\ last_signal.type = "BUY"
    /\ evaluated
    /\ fit_result.total_trades > 0

====
